---- MODULE Spec2Model ----
(***************************************************************************)
(* The list object of vm/src/obj/objlist.rs: its storage cell              *)
(* (RefCell<Vec<PyObjectRef>>), index and slice resolution, slice          *)
(* deletion, the sort with its detach / re-attach protocol and its         *)
(* reentrant callbacks, and the scans that call the user equality hook.    *)
(* Sequences are 1-based here; every index named after the source is       *)
(* 0-based and is shifted at the point of access (At, SwapAt, Drain).      *)
(***************************************************************************)
EXTENDS Integers, Sequences, FiniteSets, TLC

VARIABLES
    elements,        \* PyList.elements: the contents of the RefCell
    readers,         \* outstanding shared borrows of the RefCell
    overflowChecks,  \* the build: TRUE when integer overflow panics
    fatal,           \* "none", or the panic that aborted the runtime
    call,            \* the top-level call in progress or just finished
    result,          \* its outcome, "none" while none has finished
    pc,              \* list_sort: "idle", "key", "cmp" or "done"
    values,          \* list_sort: the detached Vec (local `elements`)
    keys,            \* do_sort: the key Vec
    part,            \* partition: [lo, hi, i, store_idx] of the running call
    stack,           \* quicksort: the slices still to be sorted
    placeholder,     \* history: the reentrant operations applied to []
    mutated,         \* history: the operations by which callbacks changed the sequence
    cbFailed,        \* history: a callback returned a failure
    scans,           \* the scans in progress, innermost first
    attempt,         \* history: the last operation tried by a hook
    position,        \* PyListIterator.position of the one cursor
    exhausted,       \* history: a next() of the cursor signalled the end
    returned,        \* the value the last call returned: <<x>>, or <<>>
    hooked           \* history: the pairs the equality hook was called for

vars == <<elements, readers, overflowChecks, fatal, call, result, pc, values,
          keys, part, stack, placeholder, mutated, cbFailed, scans, attempt,
          position, exhausted, returned, hooked>>

sortVars == <<pc, values, keys, part, stack, placeholder, mutated, cbFailed>>
scanVars == <<scans, attempt>>
cursorVars == <<position, exhausted>>
obsVars == <<returned, hooked>>

-----------------------------------------------------------------------------
(* Bounds of the model.                                                    *)

MaxSliceLen == 5
MaxStep == 3
MaxSortLen == 3
MaxReentrant == 2
MaxScanLen == 2
MaxDepth == 2

(* The native index width: get_pos takes an i32.                           *)
I32Max == 2147483647
I32Min == -I32Max - 1

-----------------------------------------------------------------------------
(* Vec primitives, 0-based.                                                *)

At(v, i) == v[i + 1]

SwapAt(v, a, b) == [v EXCEPT ![a + 1] = v[b + 1], ![b + 1] = v[a + 1]]

\* Vec::drain(a..b): remove the elements at indices a .. b-1
Drain(v, a, b) == SubSeq(v, 1, a) \o SubSeq(v, b + 1, Len(v))

\* Vec::remove(i)
RemoveAt(v, i) == Drain(v, i, i + 1)

\* Vec::insert(i, x)
InsertAt(v, i, x) == SubSeq(v, 1, i) \o <<x>> \o SubSeq(v, i + 1, Len(v))

ReverseSeq(v) == [k \in 1..Len(v) |-> v[Len(v) + 1 - k]]

Iota(n) == [k \in 1..n |-> k - 1]

-----------------------------------------------------------------------------
(* BigInt, as the slice bounds and the step carry it.  <<0, v>> is a value *)
(* that fits an i32; <<1, k>> is I32Max + k and <<-1, k>> is I32Min - k    *)
(* (k >= 1), the values to_i32() answers None for.  Absent is Option::None.*)

Absent == <<2, 0>>
Big(v) == <<0, v>>
Over(k) == <<1, k>>
Under(k) == <<-1, k>>

FitsI32(b) == b[1] = 0
is_negative(b) == b[1] = -1 \/ (b[1] = 0 /\ b[2] < 0)
is_positive(b) == b[1] = 1 \/ (b[1] = 0 /\ b[2] > 0)
is_zero(b) == b[1] = 0 /\ b[2] = 0

\* x + 1 on a BigInt (delslice, reverse branch)
PlusOne(b) ==
    IF b = Absent THEN Absent
    ELSE IF b[1] = 0 THEN (IF b[2] = I32Max THEN Over(1) ELSE Big(b[2] + 1))
    ELSE IF b[1] = 1 THEN Over(b[2] + 1)
    ELSE IF b[2] = 1 THEN Big(I32Min)
    ELSE Under(b[2] - 1)

\* -step on a BigInt
Negated(b) ==
    IF b[1] = 0 THEN (IF b[2] = I32Min THEN Over(1) ELSE Big(-b[2]))
    ELSE IF b[1] = 1 THEN (IF b[2] = 1 THEN Big(I32Min) ELSE Under(b[2] - 1))
    ELSE Over(b[2] + 1)

-----------------------------------------------------------------------------
(* Index and slice resolution.  NonePos is Option::None; Panicked is the   *)
(* abort of an overflow-checked build on `-p` with p = i32::MIN.  Without  *)
(* overflow checks -p wraps to i32::MIN, whose cast to usize exceeds every *)
(* length, so the answer is None.                                          *)

NonePos == -1
Panicked == -2

get_pos(p, len) ==
    IF p < 0
    THEN IF p = I32Min
         THEN (IF overflowChecks THEN Panicked ELSE NonePos)
         ELSE IF -p > len THEN NonePos ELSE len - (-p)
    ELSE IF p >= len THEN NonePos ELSE p

get_slice_pos(slice_pos, len) ==
    LET index == IF FitsI32(slice_pos) THEN get_pos(slice_pos[2], len) ELSE NonePos
    IN  IF index = Panicked THEN Panicked
        ELSE IF index # NonePos THEN index
        ELSE IF is_negative(slice_pos) THEN 0
        ELSE len

\* the Range<usize> as <<start, end>>, or <<Panicked, Panicked>>
get_slice_range(start, stop, len) ==
    LET s == IF start = Absent THEN 0 ELSE get_slice_pos(start, len)
        e == IF stop = Absent THEN len ELSE get_slice_pos(stop, len)
    IN  IF s = Panicked \/ e = Panicked THEN <<Panicked, Panicked>> ELSE <<s, e>>

-----------------------------------------------------------------------------
(* The borrow discipline of the RefCell.  borrow_mut() panics while any    *)
(* borrow is outstanding; an exclusive borrow is only ever held inside one *)
(* operation that calls no user code, so between two steps of the model    *)
(* only shared borrows are outstanding.                                    *)

\* borrow_mut() that does not look at the shared borrows
BorrowMutIgnoresReaders(rd) == FALSE

borrow_mut_conflict(rd) == rd > 0

-----------------------------------------------------------------------------
(* Slice deletion.  Each operation answers <<new contents, outcome>>.      *)

_del_slice(v, s, e) == Drain(v, s, e)

\* the `for i in range` loop of _del_stepped_slice; nxt is indexes.peek(),
\* e or more once the stepped iterator is exhausted
RECURSIVE SteppedLoop(_, _, _, _, _, _)
SteppedLoop(v, i, e, step, nxt, deleted) ==
    IF i >= e THEN <<v, deleted>>
    ELSE IF nxt < e /\ nxt = i
    THEN SteppedLoop(v, i + 1, e, step,
                     IF step >= e - nxt THEN e ELSE nxt + step, deleted + 1)
    ELSE SteppedLoop(SwapAt(v, i - deleted, i), i + 1, e, step, nxt, deleted)

\* _del_stepped_slice draining the head of the range instead of its tail
DelSteppedSliceDrainsHead(v, s, e, step) ==
    LET r == SteppedLoop(v, s, e, step, s, 0)
    IN  Drain(r[1], s, s + r[2])

_del_stepped_slice(v, s, e, step) ==
    LET r == SteppedLoop(v, s, e, step, s, 0)
    IN  Drain(r[1], e - r[2], e)

\* the `for i in range.rev()` loop of _del_stepped_slice_reverse, run while
\* i >= s; nxt is indexes.peek(), below s once the iterator is exhausted
RECURSIVE SteppedLoopReverse(_, _, _, _, _, _)
SteppedLoopReverse(v, i, s, step, nxt, deleted) ==
    IF i < s THEN <<v, deleted>>
    ELSE IF nxt >= s /\ nxt = i
    THEN SteppedLoopReverse(v, i - 1, s, step,
                            IF step > nxt - s THEN s - 1 ELSE nxt - step, deleted + 1)
    ELSE SteppedLoopReverse(SwapAt(v, i + deleted, i), i - 1, s, step, nxt, deleted)

_del_stepped_slice_reverse(v, s, e, step) ==
    LET r == SteppedLoopReverse(v, e - 1, s, step, e - 1, 0)
    IN  Drain(r[1], s, s + r[2])

\* DelForward draining the whole range for a step beyond the native width
DelForwardDrainsRange(v, range, step) ==
    IF FitsI32(step) /\ step[2] = 1 THEN _del_slice(v, range[1], range[2])
    ELSE IF FitsI32(step) THEN _del_stepped_slice(v, range[1], range[2], step[2])
    ELSE _del_slice(v, range[1], range[2])

\* the positive-step branch, once the range is known to be non-empty
DelForward(v, range, step) ==
    IF FitsI32(step) /\ step[2] = 1 THEN _del_slice(v, range[1], range[2])
    ELSE IF FitsI32(step) THEN _del_stepped_slice(v, range[1], range[2], step[2])
    ELSE _del_slice(v, range[1], range[1] + 1)

\* the negative-step branch, once the range is known to be non-empty
DelReverse(v, range, step) ==
    LET num == Negated(step)
    IN  IF FitsI32(num) /\ num[2] = 1 THEN _del_slice(v, range[1], range[2])
        ELSE IF FitsI32(num) THEN _del_stepped_slice_reverse(v, range[1], range[2], num[2])
        ELSE _del_slice(v, range[2] - 1, range[2])

\* delslice without the `range.start < range.end` test
DelSliceDrainsEmptyRange(v, start, stop, step, rd) ==
    IF is_zero(step) THEN <<v, "InvalidArgument">>
    ELSE LET range == IF is_positive(step)
                      THEN get_slice_range(start, stop, Len(v))
                      ELSE get_slice_range(PlusOne(stop), PlusOne(start), Len(v))
         IN  IF range[1] = Panicked THEN <<v, "Overflow">>
             ELSE IF borrow_mut_conflict(rd) THEN <<v, "AliasingViolation">>
             ELSE IF is_positive(step) THEN <<DelForward(v, range, step), "Ok">>
             ELSE <<DelReverse(v, range, step), "Ok">>

\* rd: the shared borrows outstanding when the call is made
delslice(v, start, stop, step, rd) ==
    IF is_zero(step) THEN <<v, "InvalidArgument">>
    ELSE LET range == IF is_positive(step)
                      THEN get_slice_range(start, stop, Len(v))
                      ELSE get_slice_range(PlusOne(stop), PlusOne(start), Len(v))
         IN  IF range[1] = Panicked THEN <<v, "Overflow">>
             ELSE IF range[1] < range[2]
             THEN IF borrow_mut_conflict(rd) THEN <<v, "AliasingViolation">>
                  ELSE IF is_positive(step) THEN <<DelForward(v, range, step), "Ok">>
                  ELSE <<DelReverse(v, range, step), "Ok">>
             ELSE <<v, "Ok">>

\* the outcomes that abort the runtime: an overflow, a borrow conflict, and
\* a panic! or an unwrap() of None
IsPanic(res) == res \in {"Overflow", "AliasingViolation", "Panic"}

-----------------------------------------------------------------------------
(* Arguments the slice operations are called with.                         *)

\* for a sequence of length n: every index in range, one step beyond it on
\* either side, the values at the edge of the native width and beyond it
SliceBounds(n) ==
    {Absent} \cup {Big(k) : k \in -(n + 1)..(n + 1)}
             \cup {Big(I32Min), Big(I32Max), Over(1), Under(1)}

SliceSteps ==
    {Big(k) : k \in -MaxStep..MaxStep}
        \cup {Big(I32Min), Big(I32Max), Over(1), Under(1)}

\* the sequence of the worked examples of slice deletion
ExampleList == <<0, 1, 2, 3, 4, 5, 6, 7, 8, 9>>

NoCall == [op |-> "none"]
NoPart == [lo |-> 0, hi |-> 0, i |-> 0, store_idx |-> 0]
NoAttempt == [what |-> [op |-> "none"]]

InitCommon ==
    /\ readers = 0
    /\ fatal = "none"
    /\ call = NoCall
    /\ result = "none"
    /\ pc = "idle"
    /\ values = <<>>
    /\ keys = <<>>
    /\ part = NoPart
    /\ stack = <<>>
    /\ placeholder = <<>>
    /\ mutated = <<>>
    /\ cbFailed = FALSE
    /\ scans = <<>>
    /\ attempt = NoAttempt
    /\ position = 0
    /\ exhausted = FALSE
    /\ returned = <<>>
    /\ hooked = <<>>

\* list_new over range(n): the element at index i is i
InitSlice ==
    /\ InitCommon
    /\ overflowChecks \in BOOLEAN
    /\ elements \in {Iota(n) : n \in 0..MaxSliceLen} \cup {ExampleList}

\* __delitem__ with a slice
DelSlice(start, stop, step) ==
    /\ LET r == delslice(elements, start, stop, step, readers)
       IN  /\ elements' = r[1]
           /\ result' = r[2]
           /\ fatal' = IF IsPanic(r[2]) THEN r[2] ELSE "none"
    /\ call' = [op |-> "delslice", start |-> start, stop |-> stop, step |-> step,
                pre |-> elements]
    /\ UNCHANGED <<readers, overflowChecks, sortVars, scanVars, cursorVars, obsVars>>

\* no call is in progress and none has been made: a run makes one call, so
\* that the state after it can be compared with the state before it
Idle == fatal = "none" /\ result = "none" /\ pc = "idle" /\ scans = <<>>

NextSlice ==
    /\ Idle
    /\ \E start \in SliceBounds(Len(elements)), stop \in SliceBounds(Len(elements)),
          step \in SliceSteps :
           DelSlice(start, stop, step)

SpecSlice == InitSlice /\ [][NextSlice]_vars

-----------------------------------------------------------------------------
(* Index and slice resolution called on a list, one call per run.  The     *)
(* value returned is <<index>> for Some(index), <<>> for None, and         *)
(* <<start, end>> for a range.                                             *)

\* the native indices resolved against a sequence of length n: every index in
\* range, the first ones beyond it on either side, the ends of the i32 range
NativeIndices(n) == (-(n + 1)..(n + 1)) \cup {I32Min, I32Min + 1, I32Max}

\* PyList::get_pos(p) on the list
GetPos(p) ==
    /\ LET r == get_pos(p, Len(elements))
       IN  /\ result' = IF r = Panicked THEN "Overflow" ELSE "Ok"
           /\ fatal' = IF r = Panicked THEN "Overflow" ELSE "none"
           /\ returned' = IF r \in {Panicked, NonePos} THEN <<>> ELSE <<r>>
    /\ call' = [op |-> "get_pos", p |-> p, pre |-> elements]
    /\ UNCHANGED <<elements, readers, overflowChecks, sortVars, scanVars,
                   cursorVars, hooked>>

\* PyList::get_slice_range(start, stop) on the list
GetSliceRange(start, stop) ==
    /\ LET r == get_slice_range(start, stop, Len(elements))
       IN  /\ result' = IF r[1] = Panicked THEN "Overflow" ELSE "Ok"
           /\ fatal' = IF r[1] = Panicked THEN "Overflow" ELSE "none"
           /\ returned' = IF r[1] = Panicked THEN <<>> ELSE r
    /\ call' = [op |-> "get_slice_range", start |-> start, stop |-> stop,
                pre |-> elements]
    /\ UNCHANGED <<elements, readers, overflowChecks, sortVars, scanVars,
                   cursorVars, hooked>>

InitResolve ==
    /\ InitCommon
    /\ overflowChecks \in BOOLEAN
    /\ elements \in {Iota(n) : n \in 0..MaxSliceLen}

NextResolve ==
    /\ Idle
    /\ \/ \E p \in NativeIndices(Len(elements)) : GetPos(p)
       \/ \E start \in SliceBounds(Len(elements)), stop \in SliceBounds(Len(elements)) :
              GetSliceRange(start, stop)

SpecResolve == InitResolve /\ [][NextResolve]_vars

-----------------------------------------------------------------------------
(* The operations a callback can apply to the sequence while an outer call *)
(* is suspended in it.  Each answers <<new contents, outcome>>; rd is the  *)
(* number of shared borrows outstanding when it is called.                 *)

append(v, x, rd) ==
    IF borrow_mut_conflict(rd) THEN <<v, "AliasingViolation">>
    ELSE <<Append(v, x), "Ok">>

\* insert(where, x); `where` is the argument `position` of the source
insert(v, where, x, rd) ==
    IF borrow_mut_conflict(rd) THEN <<v, "AliasingViolation">>
    ELSE LET vec_len == Len(v)
             unbounded_position == IF where < 0 THEN vec_len + where ELSE where
             bounded == IF unbounded_position < 0 THEN 0
                        ELSE IF unbounded_position > vec_len THEN vec_len
                        ELSE unbounded_position
         IN  <<InsertAt(v, bounded, x), "Ok">>

clear(v, rd) ==
    IF borrow_mut_conflict(rd) THEN <<v, "AliasingViolation">>
    ELSE <<(<<>>), "Ok">>

\* pop(i); the default of i is -1
pop(v, i, rd) ==
    IF borrow_mut_conflict(rd) THEN <<v, "AliasingViolation">>
    ELSE LET j == IF i < 0 THEN i + Len(v) ELSE i
         IN  IF Len(v) = 0 THEN <<v, "OutOfRange">>
             ELSE IF j < 0 \/ j >= Len(v) THEN <<v, "OutOfRange">>
             ELSE <<RemoveAt(v, j), "Ok">>

delindex(v, index, rd) ==
    LET pos_index == get_pos(index, Len(v))
    IN  IF pos_index = Panicked THEN <<v, "Overflow">>
        ELSE IF pos_index = NonePos THEN <<v, "OutOfRange">>
        ELSE IF borrow_mut_conflict(rd) THEN <<v, "AliasingViolation">>
        ELSE <<RemoveAt(v, pos_index), "Ok">>

-----------------------------------------------------------------------------
(* The sort.  A step of the model runs list_sort from one callback         *)
(* invocation to the next: the callbacks (key function, less-than, bool)   *)
(* are the only places where other code runs.  The slices quicksort works  *)
(* on are kept as absolute bounds [lo, hi) into the two Vecs.              *)

SortValues == {1, 2, 3}

\* two handles that are in no initial sequence
FreshHandles == <<8, 9>>

KeyFuncs == {"absent", "negate", "parity"}

\* what the key function answers for x; with no key function the key is x
KeyOf(key_func, x) ==
    CASE key_func = "absent" -> x
      [] key_func = "negate" -> 0 - x
      [] key_func = "parity" -> x % 2

\* partition, up to its first comparison
PartitionEnter(vals, ks, lo, hi) ==
    LET pivot == lo + ((hi - lo) \div 2)
    IN  [values |-> SwapAt(vals, pivot, hi - 1),
         keys |-> SwapAt(ks, pivot, hi - 1),
         part |-> [lo |-> lo, hi |-> hi, i |-> lo, store_idx |-> lo]]

\* PartitionStep swapping the values and leaving the keys where they are
PartitionStepSwapsValuesOnly(vals, ks, p, b) ==
    IF b
    THEN [values |-> SwapAt(vals, p.i, p.store_idx),
          keys |-> ks,
          part |-> [p EXCEPT !.i = p.i + 1, !.store_idx = p.store_idx + 1]]
    ELSE [values |-> vals, keys |-> ks, part |-> [p EXCEPT !.i = p.i + 1]]

\* one pass of the loop of partition, the comparison having answered b
PartitionStep(vals, ks, p, b) ==
    IF b
    THEN [values |-> SwapAt(vals, p.i, p.store_idx),
          keys |-> SwapAt(ks, p.i, p.store_idx),
          part |-> [p EXCEPT !.i = p.i + 1, !.store_idx = p.store_idx + 1]]
    ELSE [values |-> vals, keys |-> ks, part |-> [p EXCEPT !.i = p.i + 1]]

\* partition, after its loop: the pivot goes to store_idx
PartitionExit(vals, ks, p) ==
    [values |-> SwapAt(vals, p.store_idx, p.hi - 1),
     keys |-> SwapAt(ks, p.store_idx, p.hi - 1),
     pivot |-> p.store_idx]

\* quicksort on the slices of stk, first to last, until a comparison is due
\* (pc "cmp") or nothing is left (pc "sorted")
RECURSIVE quicksort(_, _, _)
quicksort(vals, ks, stk) ==
    IF stk = <<>>
    THEN [pc |-> "sorted", values |-> vals, keys |-> ks, part |-> NoPart, stack |-> <<>>]
    ELSE LET lo == Head(stk)[1]
             hi == Head(stk)[2]
         IN  IF hi - lo >= 2
             THEN LET e == PartitionEnter(vals, ks, lo, hi)
                  IN  [pc |-> "cmp", values |-> e.values, keys |-> e.keys,
                       part |-> e.part, stack |-> Tail(stk)]
             ELSE quicksort(vals, ks, Tail(stk))

\* quicksort after the partition p has ended: the two recursive calls
AfterPartition(vals, ks, p, stk) ==
    LET x == PartitionExit(vals, ks, p)
    IN  quicksort(x.values, x.keys,
                  <<(<<p.lo, x.pivot>>), (<<x.pivot + 1, p.hi>>)>> \o stk)

\* the end of do_sort
Reversed(vals, reverse) == IF reverse THEN ReverseSeq(vals) ELSE vals

\* Reattach leaving in the cell what the callbacks put there
ReattachKeepsPlaceholder(sorted, temp_elements) ==
    IF temp_elements # <<>> THEN <<temp_elements, "MutationConflict">>
    ELSE <<sorted, "Ok">>

\* Reattach without the test of what the cell held
ReattachWithoutTest(sorted, temp_elements) == <<sorted, "Ok">>

\* list_sort after a do_sort that succeeded: the sorted Vec goes into the
\* cell, and what the cell held decides the outcome
Reattach(sorted, temp_elements) ==
    <<sorted, IF temp_elements # <<>> THEN "MutationConflict" ELSE "Ok">>

\* list_sort when do_sort fails: `?` returns at once, the cell keeps what it
\* holds and the detached Vec is dropped
Abandon(detached, temp_elements) == temp_elements

\* Detach copying the Vec out of the cell instead of replacing it
DetachCopies(v) == [cell |-> v, local |-> v]

\* list_sort, first step: the cell is emptied, its Vec becomes the local
Detach(v) == [cell |-> <<>>, local |-> v]

\* the same step as a callback of another call sees it: RefCell::replace
\* borrows the cell exclusively
replace(v, rd) ==
    IF borrow_mut_conflict(rd) THEN <<v, "AliasingViolation">>
    ELSE <<Detach(v).cell, "Ok">>

\* the state of list_sort after the step that left it in r, the cell
\* holding cur
Proceed(r, cur, reverse) ==
    /\ values' = r.values
    /\ keys' = r.keys
    /\ part' = r.part
    /\ stack' = r.stack
    /\ IF r.pc = "sorted"
       THEN LET done == Reattach(Reversed(r.values, reverse), cur)
            IN  /\ pc' = "done"
                /\ elements' = done[1]
                /\ result' = done[2]
       ELSE /\ pc' = r.pc
            /\ elements' = cur
            /\ result' = "none"

Sorting == pc \in {"key", "cmp"}

\* list.sort(key=key_func, reverse=reverse), up to the first callback; lt is
\* the less-than of the keys: "order" is < on the integers, "any" may answer
\* anything
ListSort(key_func, reverse, lt) ==
    /\ ~borrow_mut_conflict(readers)
    /\ call' = [op |-> "sort", key_func |-> key_func, reverse |-> reverse,
                lt |-> lt, pre |-> elements]
    /\ LET d == Detach(elements)
       IN  IF key_func = "absent" \/ d.local = <<>>
           THEN Proceed(quicksort(d.local, d.local, <<(<<0, Len(d.local)>>)>>), d.cell, reverse)
           ELSE Proceed([pc |-> "key", values |-> d.local, keys |-> <<>>,
                         part |-> NoPart, stack |-> <<>>], d.cell, reverse)
    /\ placeholder' = <<>>
    /\ UNCHANGED <<readers, overflowChecks, fatal, mutated, cbFailed, scanVars, cursorVars, obsVars>>

\* the key function returns the key of the next element
KeyReturns ==
    /\ pc = "key"
    /\ LET ks == Append(keys, KeyOf(call.key_func, At(values, Len(keys))))
       IN  IF Len(ks) = Len(values)
           THEN Proceed(quicksort(values, ks, <<(<<0, Len(values)>>)>>), elements, call.reverse)
           ELSE Proceed([pc |-> "key", values |-> values, keys |-> ks,
                         part |-> NoPart, stack |-> <<>>], elements, call.reverse)
    /\ UNCHANGED <<readers, overflowChecks, fatal, call, placeholder, mutated,
                   cbFailed, scanVars, cursorVars, obsVars>>

\* what _lt and boolval answer for keys[i] < keys[len - 1]
LtAnswers ==
    IF call.lt = "order" THEN {At(keys, part.i) < At(keys, part.hi - 1)} ELSE BOOLEAN

\* the comparison of the running partition returns b
CmpReturns(b) ==
    /\ pc = "cmp"
    /\ b \in LtAnswers
    /\ LET n == PartitionStep(values, keys, part, b)
       IN  IF n.part.i < part.hi - 1
           THEN Proceed([pc |-> "cmp", values |-> n.values, keys |-> n.keys,
                         part |-> n.part, stack |-> stack], elements, call.reverse)
           ELSE Proceed(AfterPartition(n.values, n.keys, n.part, stack), elements, call.reverse)
    /\ UNCHANGED <<readers, overflowChecks, fatal, call, placeholder, mutated,
                   cbFailed, scanVars, cursorVars, obsVars>>

\* the key function, _lt or boolval returns a failure
CallbackFails ==
    /\ Sorting
    /\ elements' = Abandon(values, elements)
    /\ pc' = "done"
    /\ result' = "CallbackFailure"
    /\ cbFailed' = TRUE
    /\ values' = <<>>
    /\ keys' = <<>>
    /\ part' = NoPart
    /\ stack' = <<>>
    /\ UNCHANGED <<readers, overflowChecks, fatal, call, placeholder, mutated, scanVars, cursorVars, obsVars>>

\* a callback applies the operation named op to the sequence being sorted; r
\* is what it makes of the cell, h what it makes of the history
Reenter(op, r, h) ==
    /\ Sorting
    /\ Len(mutated) < MaxReentrant
    /\ r[1] # elements
    /\ elements' = r[1]
    /\ placeholder' = h[1]
    /\ mutated' = Append(mutated, op)
    /\ UNCHANGED <<readers, overflowChecks, fatal, call, result, pc, values, keys,
                   part, stack, cbFailed, scanVars, cursorVars, obsVars>>

CallbackAppends == Reenter("append", append(elements, FreshHandles[2], readers),
                           append(placeholder, FreshHandles[2], readers))

CallbackInserts == Reenter("insert", insert(elements, 0, FreshHandles[1], readers),
                           insert(placeholder, 0, FreshHandles[1], readers))

CallbackPops == Reenter("pop", pop(elements, -1, readers), pop(placeholder, -1, readers))

CallbackClears == Reenter("clear", clear(elements, readers), clear(placeholder, readers))

SeqsUpTo(S, n) == UNION {[1..k -> S] : k \in 0..n}

InitSort ==
    /\ InitCommon
    /\ overflowChecks = FALSE
    /\ elements \in SeqsUpTo(SortValues, MaxSortLen)

NextSort ==
    \/ /\ Idle
       /\ \E key_func \in KeyFuncs, reverse \in BOOLEAN, lt \in {"order", "any"} :
              ListSort(key_func, reverse, lt)
    \/ KeyReturns
    \/ \E b \in BOOLEAN : CmpReturns(b)
    \/ CallbackFails
    \/ CallbackAppends
    \/ CallbackInserts
    \/ CallbackPops
    \/ CallbackClears

SpecSort == InitSort /\ [][NextSort]_vars

-----------------------------------------------------------------------------
(* The scans: count, contains, index, remove and the comparison of two     *)
(* lists.  Each holds a shared borrow of the cell while it walks the Vec   *)
(* and calls the user equality hook for every pair that is not one and the *)
(* same handle.  A step of the model runs a scan from one hook invocation  *)
(* to the next.  A frame is [op, needle, other, idx, acc]: idx is the      *)
(* index the hook is running for, acc the count so far.                    *)

ScanOps == {"count", "contains", "index", "remove", "eq"}

\* the handle the element at idx is matched against
NeedleAt(f) == IF f.op = "eq" THEN At(f.other, f.idx) ELSE f.needle

\* a walk that calls the hook for every pair
ScanFromHooksEveryPair(f, v) ==
    IF f.idx >= Len(v) THEN [at |-> "end", frame |-> f] ELSE [at |-> "hook", frame |-> f]

\* the walk from f.idx on: to the next pair that needs the hook ("hook"), to
\* a match that ends the scan ("found"), or to the end of the Vec ("end")
RECURSIVE ScanFrom(_, _)
ScanFrom(f, v) ==
    IF f.idx >= Len(v) THEN [at |-> "end", frame |-> f]
    ELSE IF At(v, f.idx) = NeedleAt(f)
    THEN IF f.op = "count"
         THEN ScanFrom([f EXCEPT !.idx = f.idx + 1, !.acc = f.acc + 1], v)
         ELSE IF f.op = "eq" THEN ScanFrom([f EXCEPT !.idx = f.idx + 1], v)
         ELSE [at |-> "found", frame |-> f]
    ELSE [at |-> "hook", frame |-> f]

\* the walk resumed after the hook answered b for the pair at f.idx
AfterHook(f, b, v) ==
    IF f.op = "count"
    THEN ScanFrom([f EXCEPT !.idx = f.idx + 1, !.acc = IF b THEN f.acc + 1 ELSE f.acc], v)
    ELSE IF f.op = "eq"
    THEN (IF b THEN ScanFrom([f EXCEPT !.idx = f.idx + 1], v)
          ELSE [at |-> "mismatch", frame |-> f])
    ELSE IF b THEN [at |-> "found", frame |-> f]
    ELSE ScanFrom([f EXCEPT !.idx = f.idx + 1], v)

\* seq_equal before its walk: lists of different lengths are not equal
seq_equal_enter(f, v) ==
    IF Len(f.other) # Len(v) THEN [at |-> "mismatch", frame |-> f] ELSE ScanFrom(f, v)

\* a scan that ends by removing the last element of the Vec
ScanOutcomeRemovesLast(r, v, rd) ==
    IF r.frame.op = "remove"
    THEN IF r.at = "found"
         THEN IF borrow_mut_conflict(rd) THEN <<v, "AliasingViolation">>
              ELSE <<RemoveAt(v, Len(v) - 1), "Ok">>
         ELSE <<v, "NotFound">>
    ELSE IF r.frame.op = "index" /\ r.at = "end" THEN <<v, "NotFound">>
    ELSE <<v, "Ok">>

\* the end of a scan, its shared borrow released and rd borrows left: what it
\* makes of the Vec, and its outcome
ScanOutcome(r, v, rd) ==
    IF r.frame.op = "remove"
    THEN IF r.at = "found"
         THEN IF borrow_mut_conflict(rd) THEN <<v, "AliasingViolation">>
              ELSE <<RemoveAt(v, r.frame.idx), "Ok">>
         ELSE <<v, "NotFound">>
    ELSE IF r.frame.op = "index" /\ r.at = "end" THEN <<v, "NotFound">>
    ELSE <<v, "Ok">>

\* the state after a scan reached r with the scans of outer suspended around
\* it and rd shared borrows outstanding, its own included
Settle(r, outer, rd) ==
    IF r.at = "hook"
    THEN /\ scans' = <<r.frame>> \o outer
         /\ readers' = rd
         /\ UNCHANGED <<elements, fatal, result>>
    ELSE LET o == ScanOutcome(r, elements, rd - 1)
         IN  /\ scans' = outer
             /\ readers' = rd - 1
             /\ elements' = o[1]
             /\ fatal' = IF IsPanic(o[2]) THEN o[2] ELSE fatal
             /\ result' = IF outer = <<>> THEN o[2] ELSE result

NewFrame(op, needle, other) ==
    [op |-> op, needle |-> needle, other |-> other, idx |-> 0, acc |-> 0]

Enter(f) == IF f.op = "eq" THEN seq_equal_enter(f, elements) ELSE ScanFrom(f, elements)

\* a scan called by the program
ScanCall(op, needle, other) ==
    /\ Idle
    /\ call' = [op |-> op, needle |-> needle, other |-> other, pre |-> elements]
    /\ Settle(Enter(NewFrame(op, needle, other)), <<>>, readers + 1)
    /\ UNCHANGED <<overflowChecks, sortVars, attempt, cursorVars, obsVars>>

InHook == fatal = "none" /\ scans # <<>>

\* a scan called by the hook of a suspended scan
HookScans(op, needle, other) ==
    /\ InHook
    /\ Len(scans) < MaxDepth
    /\ Settle(Enter(NewFrame(op, needle, other)), scans, readers + 1)
    /\ UNCHANGED <<overflowChecks, call, sortVars, attempt, cursorVars, obsVars>>

\* the hook of the innermost scan answers b
HookReturns(b) ==
    /\ InHook
    /\ Settle(AfterHook(Head(scans), b, elements), Tail(scans), readers)
    /\ UNCHANGED <<overflowChecks, call, sortVars, attempt, cursorVars, obsVars>>

\* the hook of the innermost scan fails: the scan returns the failure and its
\* borrow is released
HookFails ==
    /\ InHook
    /\ scans' = Tail(scans)
    /\ readers' = readers - 1
    /\ result' = IF Tail(scans) = <<>> THEN "CallbackFailure" ELSE result
    /\ UNCHANGED <<elements, overflowChecks, fatal, call, sortVars, attempt, cursorVars, obsVars>>

\* the operations a hook tries on the sequence being scanned
HookOperations ==
    {[op |-> "append"], [op |-> "insert"], [op |-> "pop"], [op |-> "clear"],
     [op |-> "sort"]}
        \cup {[op |-> "delindex", index |-> k] : k \in {0, MaxScanLen}}
        \cup {[op |-> "delslice", start |-> Absent, stop |-> Absent, step |-> Big(1)],
              [op |-> "delslice", start |-> Absent, stop |-> Absent, step |-> Big(0)],
              [op |-> "delslice", start |-> Big(0), stop |-> Big(0), step |-> Big(1)]}

Apply(a, v, rd) ==
    CASE a.op = "append" -> append(v, FreshHandles[2], rd)
      [] a.op = "insert" -> insert(v, 0, FreshHandles[1], rd)
      [] a.op = "pop" -> pop(v, -1, rd)
      [] a.op = "clear" -> clear(v, rd)
      [] a.op = "sort" -> replace(v, rd)
      [] a.op = "delindex" -> delindex(v, a.index, rd)
      [] a.op = "delslice" -> delslice(v, a.start, a.stop, a.step, rd)

\* the hook of the innermost scan tries the operation a
HookAttempts(a) ==
    /\ InHook
    /\ LET r == Apply(a, elements, readers)
       IN  /\ elements' = r[1]
           /\ fatal' = IF IsPanic(r[2]) THEN r[2] ELSE fatal
           /\ attempt' = [what |-> a, pre |-> elements, outcome |-> r[2]]
    /\ UNCHANGED <<readers, overflowChecks, call, result, sortVars, scans, cursorVars, obsVars>>

InitBorrow ==
    /\ InitCommon
    /\ overflowChecks = FALSE
    /\ elements \in SeqsUpTo(SortValues, MaxScanLen)

\* the scans a hook starts: one that only reads and the one that goes on to
\* an exclusive borrow
NestedScanOps == {"contains", "remove"}

ScanArguments(op) ==
    IF op = "eq"
    THEN {NewFrame(op, 0, other) : other \in {<<1>>, <<1, 2>>, <<2, 1>>}}
    ELSE {NewFrame(op, needle, <<>>) : needle \in SortValues}

NextBorrow ==
    \/ \E op \in ScanOps : \E f \in ScanArguments(op) : ScanCall(op, f.needle, f.other)
    \/ \E op \in NestedScanOps : \E f \in ScanArguments(op) : HookScans(op, f.needle, f.other)
    \/ \E b \in BOOLEAN : HookReturns(b)
    \/ HookFails
    \/ \E a \in HookOperations : HookAttempts(a)

SpecBorrow == InitBorrow /\ [][NextBorrow]_vars

-----------------------------------------------------------------------------
(* The operations that take an index or a key, and concatenation, one call *)
(* per run.  A key is <<kind, value>>: an integer of any magnitude, a      *)
(* slice or an object of another type.                                     *)

MaxIndexLen == 3

IntKey(b) == <<"int", b>>
SliceKey == <<"slice", Absent>>
OtherKey == <<"other", Absent>>

\* get_pos of the Vec itself (PySliceableSequence, objsequence.rs), which
\* setitem calls on the storage it has borrowed
resolve_index(i, len) ==
    IF i < 0
    THEN (IF i < -len THEN NonePos ELSE len + i)
    ELSE IF i >= len THEN NonePos ELSE i

\* __setitem__(key, value)
setitem(v, key, value, rd) ==
    IF borrow_mut_conflict(rd) THEN <<v, "AliasingViolation">>
    ELSE IF key[1] = "int"
    THEN IF ~FitsI32(key[2]) THEN <<v, "Panic">>
         ELSE LET pos_index == resolve_index(key[2][2], Len(v))
              IN  IF pos_index # NonePos
                  THEN <<[v EXCEPT ![pos_index + 1] = value], "Ok">>
                  ELSE <<v, "OutOfRange">>
    ELSE <<v, "Panic">>

\* the operand that is the list the operation is called on
SelfOperand == <<"self", Absent>>

IsList(other) == other[1] \in {"list", "self"}

\* borrow() panics while an exclusive borrow is outstanding; wr is the number
\* of exclusive borrows of the cell
borrow_conflict(wr) == wr > 0

\* get_elements(&other) for a list operand: a shared borrow of the cell of
\* other, which is the cell holding v when other is the list itself
get_elements(other, v, wr) ==
    IF other[1] = "self"
    THEN (IF borrow_conflict(wr)
          THEN [outcome |-> "AliasingViolation", elems |-> <<>>]
          ELSE [outcome |-> "Ok", elems |-> v])
    ELSE [outcome |-> "Ok", elems |-> other[2]]

\* __add__(other): other is <<"list", its elements>>, the list itself or an
\* object of another type; the result is a new list and the operands are
\* left alone
add(v, other, rd) ==
    IF IsList(other)
    THEN LET e2 == get_elements(other, v, 0)
         IN  [outcome |-> e2.outcome, ret |-> <<v \o e2.elems>>]
    ELSE [outcome |-> "InvalidArgument", ret |-> <<>>]

SetItem(key, value) ==
    /\ LET r == setitem(elements, key, value, readers)
       IN  /\ elements' = r[1]
           /\ result' = r[2]
           /\ fatal' = IF IsPanic(r[2]) THEN r[2] ELSE "none"
    /\ returned' = <<>>
    /\ call' = [op |-> "setitem", key |-> key, value |-> value, pre |-> elements]
    /\ UNCHANGED <<readers, overflowChecks, sortVars, scanVars, cursorVars, hooked>>

DelIndex(index) ==
    /\ LET r == delindex(elements, index, readers)
       IN  /\ elements' = r[1]
           /\ result' = r[2]
           /\ fatal' = IF IsPanic(r[2]) THEN r[2] ELSE "none"
    /\ returned' = <<>>
    /\ call' = [op |-> "delindex", key |-> IntKey(Big(index)), pre |-> elements]
    /\ UNCHANGED <<readers, overflowChecks, sortVars, scanVars, cursorVars, hooked>>

Pop(i) ==
    /\ LET r == pop(elements, i, readers)
       IN  /\ elements' = r[1]
           /\ result' = r[2]
           /\ fatal' = IF IsPanic(r[2]) THEN r[2] ELSE "none"
           /\ returned' = IF r[2] = "Ok"
                          THEN <<At(elements, IF i < 0 THEN i + Len(elements) ELSE i)>>
                          ELSE <<>>
    /\ call' = [op |-> "pop", key |-> IntKey(Big(i)), pre |-> elements]
    /\ UNCHANGED <<readers, overflowChecks, sortVars, scanVars, cursorVars, hooked>>

Add(other) ==
    /\ LET r == add(elements, other, readers)
       IN  /\ result' = r.outcome
           /\ returned' = r.ret
    /\ call' = [op |-> "add", key |-> other, pre |-> elements]
    /\ UNCHANGED <<elements, readers, overflowChecks, fatal, sortVars, scanVars,
                   cursorVars, hooked>>

\* the integer keys tried on a sequence of length n
IntKeys(n) ==
    {Big(k) : k \in NativeIndices(n)} \cup {Over(1), Under(1)}

InitIndex ==
    /\ InitCommon
    /\ overflowChecks \in BOOLEAN
    /\ elements \in {Iota(n) : n \in 0..MaxIndexLen}

NextIndex ==
    /\ Idle
    /\ \/ \E key \in {IntKey(b) : b \in IntKeys(Len(elements))} \cup {SliceKey, OtherKey} :
              SetItem(key, FreshHandles[2])
       \/ \E index \in NativeIndices(Len(elements)) : DelIndex(index)
       \/ \E i \in NativeIndices(Len(elements)) : Pop(i)
       \/ \E other \in {<<"list", elements>>, <<"list", <<>> >>, OtherKey} : Add(other)

SpecIndex == InitIndex /\ [][NextIndex]_vars

-----------------------------------------------------------------------------
(* The cursor (PyListIterator) and the operations of the program that run  *)
(* between its next() calls.  The handles of this part are integers whose  *)
(* equality is their identity, so no operation suspends in user code: each *)
(* is one step.  A returned value is <<x>>, no value is <<>>.              *)

MaxCursorLen == 4

\* next() that yields and leaves the position where it is
NextKeepsPosition(v, pos) ==
    IF pos < Len(v)
    THEN [ret |-> <<At(v, pos)>>, position |-> pos, outcome |-> "Ok"]
    ELSE [ret |-> <<>>, position |-> pos, outcome |-> "StopIteration"]

\* next() that advances the position also when it signals the end
NextAlwaysAdvances(v, pos) ==
    IF pos < Len(v)
    THEN [ret |-> <<At(v, pos)>>, position |-> pos + 1, outcome |-> "Ok"]
    ELSE [ret |-> <<>>, position |-> pos + 1, outcome |-> "StopIteration"]

\* next() that reads the last element when the position is beyond the end
NextReadsLastBeyondEnd(v, pos) ==
    IF pos < Len(v)
    THEN [ret |-> <<At(v, pos)>>, position |-> pos + 1, outcome |-> "Ok"]
    ELSE IF Len(v) > 0
    THEN [ret |-> <<At(v, Len(v) - 1)>>, position |-> pos + 1, outcome |-> "Ok"]
    ELSE [ret |-> <<>>, position |-> pos, outcome |-> "StopIteration"]

\* PyListIterator::next on the Vec v with the cursor at pos
next(v, pos) ==
    IF pos < Len(v)
    THEN [ret |-> <<At(v, pos)>>, position |-> pos + 1, outcome |-> "Ok"]
    ELSE [ret |-> <<>>, position |-> pos, outcome |-> "StopIteration"]

\* a scan run to its end, the equality of two different handles being false
RECURSIVE RunScan(_, _)
RunScan(r, v) ==
    IF r.at = "hook" THEN RunScan(AfterHook(r.frame, FALSE, v), v) ELSE r

\* remove(needle) with rd shared borrows outstanding around the call
remove(v, needle, rd) ==
    ScanOutcome(RunScan(ScanFrom(NewFrame("remove", needle, <<>>), v), v), v, rd)

\* quicksort run to its end, _lt being < on the integers
RECURSIVE RunSort(_)
RunSort(r) ==
    IF r.pc = "sorted" THEN r.values
    ELSE LET n == PartitionStep(r.values, r.keys, r.part,
                                At(r.keys, r.part.i) < At(r.keys, r.part.hi - 1))
         IN  IF n.part.i < r.part.hi - 1
             THEN RunSort([pc |-> "cmp", values |-> n.values, keys |-> n.keys,
                           part |-> n.part, stack |-> r.stack])
             ELSE RunSort(AfterPartition(n.values, n.keys, n.part, r.stack))

\* list.sort() without key function and without reverse
list_sort(v, rd) ==
    IF borrow_mut_conflict(rd) THEN <<v, "AliasingViolation">>
    ELSE LET d == Detach(v)
         IN  Reattach(RunSort(quicksort(d.local, d.local, <<(<<0, Len(d.local)>>)>>)),
                      d.cell)

\* the handle appended or inserted while the cursor is in use
CursorFresh == {4}

\* the operations applied to the sequence between two next() calls
CursorOperations ==
    {[op |-> "append", x |-> x] : x \in CursorFresh}
        \cup {[op |-> "insert", where |-> 0, x |-> x] : x \in CursorFresh}
        \cup {[op |-> "pop", i |-> i] : i \in {-1, 0}}
        \cup {[op |-> "remove", needle |-> x] : x \in {1, 2}}
        \cup {[op |-> "clear"], [op |-> "sort"]}
        \cup {[op |-> "delindex", index |-> k] : k \in {-1, 0}}
        \cup {[op |-> "delslice", start |-> Absent, stop |-> Absent, step |-> Big(2)],
              [op |-> "delslice", start |-> Big(1), stop |-> Absent, step |-> Big(1)]}

Grows(a) == a.op \in {"append", "insert"}

ApplyCursorOperation(a, v, rd) ==
    CASE a.op = "append" -> append(v, a.x, rd)
      [] a.op = "insert" -> insert(v, a.where, a.x, rd)
      [] a.op = "pop" -> pop(v, a.i, rd)
      [] a.op = "remove" -> remove(v, a.needle, rd)
      [] a.op = "clear" -> clear(v, rd)
      [] a.op = "sort" -> list_sort(v, rd)
      [] a.op = "delindex" -> delindex(v, a.index, rd)
      [] a.op = "delslice" -> delslice(v, a.start, a.stop, a.step, rd)

\* the program calls next() on the cursor
CursorNext ==
    /\ LET n == next(elements, position)
       IN  /\ position' = n.position
           /\ returned' = n.ret
           /\ result' = n.outcome
           /\ exhausted' = (exhausted \/ n.outcome = "StopIteration")
    /\ call' = [op |-> "next", pre |-> elements, position |-> position,
                exhausted |-> exhausted]
    /\ UNCHANGED <<elements, readers, overflowChecks, fatal, sortVars, scanVars, hooked>>

\* the program applies the operation a to the sequence
Operate(a) ==
    /\ Grows(a) => Len(elements) < MaxCursorLen
    /\ LET r == ApplyCursorOperation(a, elements, readers)
       IN  /\ elements' = r[1]
           /\ result' = r[2]
    /\ returned' = <<>>
    /\ call' = [op |-> a.op, pre |-> elements, position |-> position,
                exhausted |-> exhausted]
    /\ UNCHANGED <<readers, overflowChecks, fatal, sortVars, scanVars, cursorVars, hooked>>

\* iter() over a list just built
InitCursor ==
    /\ InitCommon
    /\ overflowChecks = FALSE
    /\ elements \in SeqsUpTo(SortValues, MaxCursorLen - 1)

NextCursor ==
    \/ CursorNext
    \/ \E a \in CursorOperations : Operate(a)

SpecCursor == InitCursor /\ [][NextCursor]_vars

-----------------------------------------------------------------------------
(* The scans with the equality hook observed: which pairs it is called     *)
(* for, and what the scan returns.  The hook is a relation fixed for the   *)
(* call; it answers "true", "false" or "fail", also for a pair of one and  *)
(* the same handle, where "never" and "raises" show a hook that would deny *)
(* or fail the comparison of a value with itself.                          *)

MaxMatchLen == 4

EqHooks == {"never", "always", "parity", "raises"}

\* what vm._eq and the truth test answer for the pair (x, y)
Hook(eq, x, y) ==
    CASE eq = "never" -> "false"
      [] eq = "always" -> "true"
      [] eq = "parity" -> (IF x % 2 = y % 2 THEN "true" ELSE "false")
      [] eq = "raises" -> "fail"

\* the value a scan that reached r returns
ScanValue(r) ==
    IF r.at = "hook" THEN <<>>
    ELSE CASE r.frame.op = "count" -> <<r.frame.acc>>
           [] r.frame.op = "contains" -> <<r.at = "found">>
           [] r.frame.op = "index" -> (IF r.at = "found" THEN <<r.frame.idx>> ELSE <<>>)
           [] OTHER -> <<>>

\* count, contains, index or remove called by the program, up to the first
\* invocation of the hook
Scan(op, needle, eq) ==
    /\ Idle
    /\ call' = [op |-> op, needle |-> needle, eq |-> eq, pre |-> elements]
    /\ LET r == ScanFrom(NewFrame(op, needle, <<>>), elements)
       IN  /\ Settle(r, <<>>, readers + 1)
           /\ returned' = ScanValue(r)
    /\ UNCHANGED <<overflowChecks, sortVars, attempt, cursorVars, hooked>>

\* the answer of the hook for the pair the scan is suspended at
HookDecision == Hook(call.eq, At(elements, Head(scans).idx), Head(scans).needle)

\* the hook returns and the scan goes on to the next invocation or to its end
HookAnswers ==
    /\ InHook
    /\ HookDecision # "fail"
    /\ hooked' = Append(hooked, <<At(elements, Head(scans).idx), Head(scans).needle>>)
    /\ LET r == AfterHook(Head(scans), HookDecision = "true", elements)
       IN  /\ Settle(r, Tail(scans), readers)
           /\ returned' = ScanValue(r)
    /\ UNCHANGED <<overflowChecks, call, sortVars, attempt, cursorVars>>

\* the hook fails: `?` returns the failure, the shared borrow is released
HookRaises ==
    /\ InHook
    /\ HookDecision = "fail"
    /\ hooked' = Append(hooked, <<At(elements, Head(scans).idx), Head(scans).needle>>)
    /\ scans' = Tail(scans)
    /\ readers' = readers - 1
    /\ result' = "CallbackFailure"
    /\ returned' = <<>>
    /\ UNCHANGED <<elements, overflowChecks, fatal, call, sortVars, attempt, cursorVars>>

InitScan ==
    /\ InitCommon
    /\ overflowChecks = FALSE
    /\ elements \in SeqsUpTo(SortValues, MaxMatchLen)

NextScan ==
    \/ \E op \in ScanOps \ {"eq"}, needle \in SortValues, eq \in EqHooks :
           Scan(op, needle, eq)
    \/ HookAnswers
    \/ HookRaises

SpecScan == InitScan /\ [][NextScan]_vars

-----------------------------------------------------------------------------
(* The operations that take a second list, called with another list, with  *)
(* the list itself or with an object that is no list, and remove: calls in *)
(* which no user code touches the list.  The elements compared are         *)
(* integers.                                                               *)

MaxSelfLen == 2

\* __iadd__(other): the exclusive borrow of the receiver is taken first and
\* is held while the argument get_elements(&other) is evaluated
iadd(v, other, rd) ==
    IF IsList(other)
    THEN IF borrow_mut_conflict(rd) THEN <<v, "AliasingViolation">>
         ELSE LET e == get_elements(other, v, 1)
              IN  IF e.outcome # "Ok" THEN <<v, e.outcome>>
                  ELSE <<v \o e.elems, "Ok">>
    ELSE <<v, "NotImplemented">>

CompareOps == {"eq", "lt", "gt", "le", "ge"}

\* the first position (1-based) at which a and b differ, 0 when one is a
\* prefix of the other
FirstDifference(a, b) ==
    LET n == IF Len(a) < Len(b) THEN Len(a) ELSE Len(b)
        D == {k \in 1..n : a[k] # b[k]}
    IN  IF D = {} THEN 0 ELSE CHOOSE k \in D : \A j \in D : k <= j

\* seq_equal, seq_lt, seq_gt, seq_le, seq_ge on two Vecs of integers
seq_compare(op, a, b) ==
    LET k == FirstDifference(a, b)
        x == IF k = 0 THEN Len(a) ELSE a[k]
        y == IF k = 0 THEN Len(b) ELSE b[k]
    IN  CASE op = "eq" -> Len(a) = Len(b) /\ k = 0
          [] op = "lt" -> x < y
          [] op = "gt" -> x > y
          [] op = "le" -> x <= y
          [] op = "ge" -> x >= y

\* __eq__, __lt__, __gt__, __le__, __ge__ with other
compare(op, v, other, rd) ==
    IF op = "eq" /\ other[1] = "self"
    THEN [outcome |-> "Ok", ret |-> <<TRUE>>]
    ELSE IF IsList(other)
    THEN LET e == get_elements(other, v, 0)
         IN  IF e.outcome # "Ok" THEN [outcome |-> e.outcome, ret |-> <<>>]
             ELSE [outcome |-> "Ok", ret |-> <<seq_compare(op, v, e.elems)>>]
    ELSE [outcome |-> "NotImplemented", ret |-> <<>>]

IAdd(other) ==
    /\ Idle
    /\ LET r == iadd(elements, other, readers)
       IN  /\ elements' = r[1]
           /\ result' = r[2]
           /\ fatal' = IF IsPanic(r[2]) THEN r[2] ELSE "none"
    /\ returned' = <<>>
    /\ call' = [op |-> "iadd", key |-> other, pre |-> elements]
    /\ UNCHANGED <<readers, overflowChecks, sortVars, scanVars, cursorVars, hooked>>

\* __add__ with the operands of this part
AddList(other) ==
    /\ Idle
    /\ LET r == add(elements, other, readers)
       IN  /\ result' = r.outcome
           /\ fatal' = IF IsPanic(r.outcome) THEN r.outcome ELSE "none"
           /\ returned' = r.ret
    /\ call' = [op |-> "add", key |-> other, pre |-> elements]
    /\ UNCHANGED <<elements, readers, overflowChecks, sortVars, scanVars,
                   cursorVars, hooked>>

Compare(op, other) ==
    /\ Idle
    /\ LET r == compare(op, elements, other, readers)
       IN  /\ result' = r.outcome
           /\ fatal' = IF IsPanic(r.outcome) THEN r.outcome ELSE "none"
           /\ returned' = r.ret
    /\ call' = [op |-> op, key |-> other, pre |-> elements]
    /\ UNCHANGED <<elements, readers, overflowChecks, sortVars, scanVars,
                   cursorVars, hooked>>

\* the second operands: the list itself, two other lists, no list
Operands == {SelfOperand, <<"list", <<>> >>, <<"list", <<1, 2>> >>, OtherKey}

InitSelf ==
    /\ InitCommon
    /\ overflowChecks = FALSE
    /\ elements \in SeqsUpTo(SortValues, MaxSelfLen)

NextSelf ==
    \/ \E other \in Operands : IAdd(other)
    \/ \E other \in Operands : AddList(other)
    \/ \E op \in CompareOps, other \in Operands : Compare(op, other)
    \/ \E needle \in SortValues, eq \in EqHooks : Scan("remove", needle, eq)
    \/ HookAnswers
    \/ HookRaises

SpecSelf == InitSelf /\ [][NextSelf]_vars

-----------------------------------------------------------------------------
(* The sort: the properties.                                               *)

Occurrences(v, x) == Cardinality({k \in 1..Len(v) : v[k] = x})

\* a and b hold the same elements, each as often
IsPermutation(a, b) ==
    /\ Len(a) = Len(b)
    /\ \A k \in 1..Len(a) : Occurrences(a, a[k]) = Occurrences(b, a[k])

SortEnded == call.op = "sort" /\ pc = "done"

Mutated == mutated # <<>>

OnlyAppended == Mutated /\ \A k \in 1..Len(mutated) : mutated[k] = "append"

\* the keys of v do not decrease (do not increase, when reverse) by position
OrderedByKey(v, key_func, reverse) ==
    \A a, b \in 1..Len(v) :
        a < b => IF reverse
                 THEN KeyOf(key_func, v[a]) >= KeyOf(key_func, v[b])
                 ELSE KeyOf(key_func, v[a]) <= KeyOf(key_func, v[b])

\* C1 as stated: when callbacks append during a sort (and none fails), the
\* sort ends with MutationConflict and the sequence then holds exactly the
\* appended elements.
C1_AppendedElementsRemain ==
    (SortEnded /\ OnlyAppended /\ ~cbFailed) =>
        (result = "MutationConflict" /\ elements = placeholder)

\* C1, amended: when callbacks append during a sort that runs to its end, the
\* sort ends with MutationConflict and the sequence then holds the array the
\* sort produced, the elements it held before the call; the appended elements
\* are dropped.
C1_SortedArrayReplacesAppended ==
    (SortEnded /\ OnlyAppended /\ ~cbFailed) =>
        /\ result = "MutationConflict"
        /\ IsPermutation(elements, call.pre)
        /\ call.lt = "order" => OrderedByKey(elements, call.key_func, call.reverse)

C1_Witness ==
    /\ SortEnded /\ OnlyAppended /\ ~cbFailed
    /\ call.pre = <<3, 1, 2>> /\ call.key_func = "absent" /\ ~call.reverse
    /\ call.lt = "order"
    /\ placeholder = <<9>>
    /\ result = "MutationConflict"
    /\ elements = <<1, 2, 3>>

\* C2: when a callback fails during a sort and no callback changed the
\* sequence, the sort returns that failure and the sequence again holds the
\* elements it held before the call.
C2_FailureRestoresElements ==
    (SortEnded /\ cbFailed /\ ~Mutated) =>
        (result = "CallbackFailure" /\ IsPermutation(elements, call.pre))

\* C3 as stated: whenever a callback changed the sequence during a sort, the
\* sort ends with MutationConflict.
C3_EveryMutationReported ==
    (SortEnded /\ Mutated) => result = "MutationConflict"

\* C3, amended: a sort ends with MutationConflict exactly when no callback
\* failed and the sequence is not empty at the moment the storage is
\* re-attached; when a callback failed it ends with that failure, whatever
\* the callbacks did to the sequence; otherwise it succeeds, also when
\* callbacks added elements and removed them again.
C3_MutationReportedWhenLeftAtEnd ==
    SortEnded =>
        /\ result = "MutationConflict" <=> (~cbFailed /\ placeholder # <<>>)
        /\ cbFailed => result = "CallbackFailure"
        /\ (~cbFailed /\ placeholder = <<>>) => result = "Ok"

C3_Witness ==
    /\ SortEnded /\ Mutated
    /\ \/ result = "MutationConflict" /\ mutated = <<"append", "insert">>
       \/ result = "Ok" /\ mutated = <<"append", "pop">> /\ Len(call.pre) >= 2
       \/ result = "CallbackFailure" /\ elements = <<9>>

\* C4: with a strict total order on the keys and callbacks that neither fail
\* nor change the sequence, the sort succeeds and leaves a permutation of the
\* original elements whose keys do not decrease by position (do not increase,
\* when reverse); whatever the comparisons answer, every key stays at the
\* position of its value while the sort runs and when it has run to its end.
C4_SortOrdersByKey ==
    /\ (call.op = "sort" /\ (pc = "cmp" \/ (pc = "done" /\ ~cbFailed))) =>
           \A k \in 1..Len(values) : keys[k] = KeyOf(call.key_func, values[k])
    /\ (SortEnded /\ call.lt = "order" /\ ~cbFailed /\ ~Mutated) =>
           /\ result = "Ok"
           /\ IsPermutation(elements, call.pre)
           /\ OrderedByKey(elements, call.key_func, call.reverse)

C4_Witness ==
    /\ SortEnded /\ call.lt = "order" /\ ~cbFailed /\ ~Mutated
    /\ call.pre = <<3, 1, 2>> /\ call.key_func = "absent" /\ call.reverse
    /\ result = "Ok"
    /\ elements = <<3, 2, 1>>

\* C5: from the detach to the re-attach the sequence is the placeholder, which
\* starts empty and holds what the callbacks' operations make of it; the
\* detached arrays hold the original elements and are left alone by every
\* step in which a callback changes the sequence.
C5_CallbacksActOnPlaceholder ==
    [][ /\ Sorting => (elements = placeholder /\ IsPermutation(values, call.pre))
        /\ Sorting' => (elements' = placeholder' /\ IsPermutation(values', call'.pre))
        /\ (Sorting /\ Sorting' /\ elements' # elements) =>
               (values' = values /\ keys' = keys /\ part' = part /\ stack' = stack)
      ]_vars

C5_Witness ==
    /\ pc = "cmp"
    /\ mutated = <<"append", "pop">>
    /\ elements = <<>>
    /\ call.pre = <<3, 1, 2>>
    /\ values = <<3, 2, 1>>

-----------------------------------------------------------------------------
(* Slice deletion: the reference and the properties.                       *)

Min(a, b) == IF a < b THEN a ELSE b

\* v without the elements whose 0-based index is in del, order kept
Without(v, del) ==
    LET F[k \in 0..Len(v)] ==
            IF k = 0 THEN <<>>
            ELSE IF (k - 1) \in del THEN F[k - 1] ELSE Append(F[k - 1], v[k])
    IN  F[Len(v)]

\* a slice bound against a length: an offset from the end when negative,
\* clamped to [0, len]
RefClamp(b, len) ==
    IF b[1] = 1 THEN len
    ELSE IF b[1] = -1 THEN 0
    ELSE IF b[2] >= 0 THEN Min(b[2], len)
    ELSE IF b[2] < -len THEN 0
    ELSE len + b[2]

\* the indices a slice with a positive step selects
RefForward(start, stop, step, len) ==
    LET s == IF start = Absent THEN 0 ELSE RefClamp(start, len)
        e == IF stop = Absent THEN len ELSE RefClamp(stop, len)
    IN  {k \in s..(e - 1) : IF FitsI32(step) THEN (k - s) % step[2] = 0 ELSE k = s}

\* a bound of a slice with a negative step: -1 stands for "before index 0"
RefClampReverse(b, len) ==
    IF b[1] = 1 THEN len - 1
    ELSE IF b[1] = -1 THEN -1
    ELSE IF b[2] >= len THEN len - 1
    ELSE IF b[2] >= 0 THEN b[2]
    ELSE IF b[2] < -len THEN -1
    ELSE len + b[2]

\* the indices a slice with a negative step selects, walked from start down
\* towards stop, stop excluded
RefReverse(start, stop, step, len) ==
    LET hi == IF start = Absent THEN len - 1 ELSE RefClampReverse(start, len)
        lo == IF stop = Absent THEN -1 ELSE RefClampReverse(stop, len)
        mag == Negated(step)
    IN  {k \in (lo + 1)..hi : IF FitsI32(mag) THEN (hi - k) % mag[2] = 0 ELSE k = hi}

\* the half-open range the deletion works on: the bounds as given for a
\* positive step, shifted by one and swapped for a negative one
RefRange(start, stop, step, len) ==
    IF is_positive(step)
    THEN <<IF start = Absent THEN 0 ELSE RefClamp(start, len),
           IF stop = Absent THEN len ELSE RefClamp(stop, len)>>
    ELSE <<IF stop = Absent THEN 0 ELSE RefClamp(PlusOne(stop), len),
           IF start = Absent THEN len ELSE RefClamp(PlusOne(start), len)>>

AfterDelSlice == call.op = "delslice"

\* C7: for every length, start, stop and step >= 1, slice deletion succeeds
\* and leaves the sequence the reference leaves: the selected indices
\* removed, the others in their order.
C7_ForwardDeletionIsReference ==
    (AfterDelSlice /\ is_positive(call.step)) =>
        /\ result = "Ok"
        /\ elements = Without(call.pre,
                              RefForward(call.start, call.stop, call.step, Len(call.pre)))

\* C8: for every length, start, stop and step <= -1, slice deletion succeeds
\* and removes exactly the indices the slice selects walking down from start
\* to stop (excluded), the others kept in their order.
C8_ReverseDeletionIsReference ==
    (AfterDelSlice /\ is_negative(call.step)) =>
        /\ result = "Ok"
        /\ elements = Without(call.pre,
                              RefReverse(call.start, call.stop, call.step, Len(call.pre)))

IsExampleCall ==
    /\ AfterDelSlice
    /\ call.pre = ExampleList
    /\ call.start = Big(2) /\ call.stop = Big(9) /\ call.step = Big(2)

\* C9 as stated: deleting [2:9:2] from [0,1,2,3,4,5,6,7,8,9] leaves
\* [0,1,3,5,7,8,9].
C9_ExampleLeavesEight ==
    IsExampleCall => (result = "Ok" /\ elements = <<0, 1, 3, 5, 7, 8, 9>>)

\* C9, amended: deleting [2:9:2] from [0,1,2,3,4,5,6,7,8,9] removes the
\* indices 2, 4, 6 and 8 and leaves [0,1,3,5,7,9].
C9_ExampleForwardDeletion ==
    IsExampleCall => (result = "Ok" /\ elements = <<0, 1, 3, 5, 7, 9>>)

C9_Witness == IsExampleCall /\ elements = <<0, 1, 3, 5, 7, 9>>

\* C10: a step of zero fails with the invalid-argument failure whatever start,
\* stop and length are, and changes nothing; a deletion that resolved its
\* range and found it empty (start >= stop) succeeds and changes nothing.
C10_ZeroStepAndEmptyRange ==
    AfterDelSlice =>
        /\ is_zero(call.step) => (result = "InvalidArgument" /\ elements = call.pre)
        /\ ( /\ ~is_zero(call.step)
             /\ result # "Overflow"
             /\ LET r == RefRange(call.start, call.stop, call.step, Len(call.pre))
                IN  r[1] >= r[2] )
           => (result = "Ok" /\ elements = call.pre)

C10_Witness ==
    /\ AfterDelSlice
    /\ call.pre = <<0, 1, 2>>
    /\ \/ is_zero(call.step) /\ call.start = Big(I32Min) /\ result = "InvalidArgument"
       \/ call.step = Big(2) /\ call.start = Big(2) /\ call.stop = Big(1) /\ result = "Ok"

-----------------------------------------------------------------------------
(* The borrows: the properties.                                            *)

Scanning == call.op \in ScanOps

Attempted == attempt.what.op # "none"

\* the operation tried gets as far as changing the Vec: every operation but a
\* delete whose index is out of range, whose step is zero or whose range is
\* empty
NeedsExclusive(a, len) ==
    CASE a.op = "delindex" -> -len <= a.index /\ a.index < len
      [] a.op = "delslice" ->
            /\ ~is_zero(a.step)
            /\ LET r == RefRange(a.start, a.stop, a.step, len) IN r[1] < r[2]
      [] OTHER -> TRUE

\* C6 as stated: every operation among append, insert, pop, clear, delete and
\* sort that a hook tries on the sequence being scanned ends in the
\* AliasingViolation and leaves the storage as it was.
C6_EveryAttemptIsFatal ==
    (Scanning /\ Attempted) =>
        (fatal = "AliasingViolation" /\ elements = attempt.pre)

\* C6, amended: while shared borrows are outstanding the storage is never
\* changed (no exclusive borrow overlaps them); an operation a hook tries on
\* the sequence being scanned ends in the AliasingViolation when it gets as
\* far as its exclusive borrow, which append, insert, pop, clear and sort
\* always do and a delete does unless its index is out of range, its step zero
\* or its range empty; such a delete returns its ordinary outcome; in no case
\* does the attempt change the storage.
C6_ExclusiveBorrowNeverOverlaps ==
    Scanning =>
        /\ readers = Len(scans)
        /\ (readers > 0 \/ fatal = "AliasingViolation") => elements = call.pre
        /\ (Attempted /\ NeedsExclusive(attempt.what, Len(attempt.pre))) =>
               /\ attempt.outcome = "AliasingViolation"
               /\ fatal = "AliasingViolation"
               /\ elements = attempt.pre
        /\ (Attempted /\ ~NeedsExclusive(attempt.what, Len(attempt.pre))) =>
               /\ attempt.outcome \in {"OutOfRange", "InvalidArgument", "Ok"}
               /\ readers > 0 => elements = attempt.pre

C6_Witness ==
    /\ Scanning
    /\ call.op = "count"
    /\ attempt.what.op = "append"
    /\ fatal = "AliasingViolation"
    /\ readers = 2
    /\ Head(scans).op = "contains"
    /\ elements = call.pre

-----------------------------------------------------------------------------
(* The cursor: the properties.                                             *)

AfterNext == call.op = "next"

\* C11: every next() reads the length the sequence has at that moment: with
\* the position below it, it yields the element now at the position and
\* advances the position by exactly one; otherwise it signals the end and
\* leaves the position where it was.  Elements appended after the cursor was
\* created are therefore yielded.
C11_NextRereadsLength ==
    AfterNext =>
        /\ elements = call.pre
        /\ IF call.position < Len(call.pre)
           THEN /\ result = "Ok"
                /\ returned = <<At(call.pre, call.position)>>
                /\ position = call.position + 1
           ELSE /\ result = "StopIteration"
                /\ returned = <<>>
                /\ position = call.position

C11_Witness ==
    /\ AfterNext
    /\ elements = <<1, 2, 3, 4>>
    /\ call.position = 3
    /\ returned = <<4>>
    /\ position = 4

\* C12: once a next() of the cursor has signalled the end, every later next()
\* signals the end too, whatever was done to the sequence in between.
C12_ExhaustionIsPermanent ==
    (AfterNext /\ call.exhausted) => result = "StopIteration"

\* C13 as stated: at the moment a next() is evaluated the position of the
\* cursor does not exceed the length of the sequence.
C13_PositionWithinLength ==
    AfterNext => call.position <= Len(call.pre)

\* C13, amended: no step lowers the position; a next() that yields found the
\* position below the length and leaves it at most equal to the length; an
\* operation that shrinks the sequence can leave the position above the
\* length, and the next() evaluated then signals the end and leaves the
\* position alone.
C13_PositionBoundedWhenYielding ==
    /\ call.op # "none" => position >= call.position
    /\ (AfterNext /\ result = "Ok") =>
           (call.position < Len(call.pre) /\ position <= Len(elements))
    /\ (AfterNext /\ call.position > Len(call.pre)) =>
           (result = "StopIteration" /\ position = call.position)

C13_Witness ==
    /\ AfterNext
    /\ call.position = 3
    /\ call.pre = <<>>
    /\ result = "StopIteration"
    /\ position = 3

-----------------------------------------------------------------------------
(* The scans: the reference and the properties.                            *)

ScanEnded == call.op \in ScanOps \ {"eq"} /\ result # "none"

\* what the element x of the Vec scanned is decided to be: a match when it
\* is the needle itself, else what the hook answers
Decision(x) == IF x = call.needle THEN "true" ELSE Hook(call.eq, x, call.needle)

Deciding(ds) == {i \in 0..(Len(call.pre) - 1) : Decision(At(call.pre, i)) \in ds}

Lowest(S) == CHOOSE i \in S : \A j \in S : i <= j

\* the index at which a scan that stops at the first match ends, when there
\* is one: the lowest index whose pair matches or makes the hook fail
Stops == Deciding({"true", "fail"})

FoundAt(i) == Stops # {} /\ Lowest(Stops) = i /\ Decision(At(call.pre, i)) = "true"

\* C14: a remove(needle) that no failure of the hook ends deletes, when an
\* element matches, the element at the lowest matching index and nothing
\* else, the others keeping their order and the length going down by one;
\* without a match it fails with NotFound and changes nothing.
C14_RemoveDeletesFirstMatch ==
    (ScanEnded /\ call.op = "remove" /\ result # "CallbackFailure") =>
        IF Deciding({"true"}) = {}
        THEN result = "NotFound" /\ elements = call.pre
        ELSE /\ result = "Ok"
             /\ elements = Without(call.pre, {Lowest(Deciding({"true"}))})
             /\ Len(elements) = Len(call.pre) - 1

C14_Witness ==
    /\ ScanEnded /\ call.op = "remove"
    /\ call.pre = <<1, 2, 2, 3>> /\ call.needle = 2 /\ call.eq = "never"
    /\ result = "Ok"
    /\ elements = <<1, 2, 3>>

\* C15: count, contains, index and remove never call the hook for a pair of
\* one and the same handle, and such a pair is a match also under a hook that
\* would deny it or fail; every other pair is decided by the hook.
C15_IdentityBeforeHook ==
    /\ \A k \in 1..Len(hooked) : hooked[k][1] # hooked[k][2]
    /\ (ScanEnded /\ call.op = "count") =>
           IF Deciding({"fail"}) # {}
           THEN result = "CallbackFailure"
           ELSE result = "Ok" /\ returned = <<Cardinality(Deciding({"true"}))>>
    /\ (ScanEnded /\ call.op # "count") =>
           IF Stops = {}
           THEN /\ result = (IF call.op = "contains" THEN "Ok" ELSE "NotFound")
                /\ call.op = "contains" => returned = <<FALSE>>
           ELSE IF FoundAt(Lowest(Stops))
           THEN /\ result = "Ok"
                /\ call.op = "contains" => returned = <<TRUE>>
                /\ call.op = "index" => returned = <<Lowest(Stops)>>
                /\ call.op = "remove" => elements = Without(call.pre, {Lowest(Stops)})
           ELSE result = "CallbackFailure"
    /\ (ScanEnded /\ call.op # "remove") => elements = call.pre

C15_Witness ==
    /\ ScanEnded /\ call.op = "index"
    /\ call.pre = <<1, 2, 3>> /\ call.needle = 2 /\ call.eq = "never"
    /\ hooked = <<(<<1, 2>>)>>
    /\ returned = <<1>>

-----------------------------------------------------------------------------
(* Resolution: the properties.                                             *)

\* C16: for every native index i, the most negative one included, and every
\* length len, get_pos completes without overflow and answers i when
\* 0 <= i < len, len + i when -len <= i < 0, and None otherwise.
C16_GetPosResolvesEveryIndex ==
    call.op = "get_pos" =>
        LET i == call.p
            len == Len(call.pre)
        IN  /\ result = "Ok"
            /\ returned = (IF 0 <= i /\ i < len THEN <<i>>
                           ELSE IF -len <= i /\ i < 0 THEN <<len + i>>
                           ELSE <<>>)

\* C17: for every length and every optional start and stop of any magnitude,
\* get_slice_range answers two bounds within [0, len]: 0 for an absent start,
\* len for an absent stop, the index for a bound that resolves as one, and for
\* any other bound 0 when it is negative and len otherwise.
C17_SliceRangeWithinLength ==
    call.op = "get_slice_range" =>
        LET len == Len(call.pre)
        IN  /\ result = "Ok"
            /\ returned = <<IF call.start = Absent THEN 0 ELSE RefClamp(call.start, len),
                            IF call.stop = Absent THEN len ELSE RefClamp(call.stop, len)>>
            /\ returned[1] \in 0..len
            /\ returned[2] \in 0..len

-----------------------------------------------------------------------------
(* Indices and keys: the properties.                                       *)

\* the index of the call resolves into [0, len): its position, else NonePos
ResolvedIndex ==
    LET b == call.key[2]
        len == Len(call.pre)
    IN  IF FitsI32(b) /\ -len <= b[2] /\ b[2] < len
        THEN (IF b[2] < 0 THEN len + b[2] ELSE b[2])
        ELSE NonePos

\* C18: indexed set, indexed delete and pop with an index that does not
\* resolve into [0, len) fail with OutOfRange and change nothing; with a valid
\* index set replaces the element at that position and keeps the length,
\* delete and pop remove that element and keep the others in order.
C18_IndexedOperations ==
    (call.op \in {"setitem", "delindex", "pop"} /\ call.key[1] = "int") =>
        IF ResolvedIndex = NonePos
        THEN result = "OutOfRange" /\ elements = call.pre
        ELSE /\ result = "Ok"
             /\ call.op = "setitem" =>
                    elements = [call.pre EXCEPT ![ResolvedIndex + 1] = call.value]
             /\ call.op \in {"delindex", "pop"} =>
                    elements = Without(call.pre, {ResolvedIndex})
             /\ call.op = "pop" => returned = <<At(call.pre, ResolvedIndex)>>

TypedFailures == {"InvalidArgument", "OutOfRange", "NotFound"}

\* C19: an operation called with an operand it does not support returns a
\* typed failure and does not abort: assignment with a slice key, with a key
\* of another type or with an integer key beyond the native width, and
\* concatenation with an object that is no sequence, each leaving the
\* sequence as it was.
C19_UnsupportedOperandIsTypedFailure ==
    /\ ( /\ call.op = "setitem"
         /\ (call.key[1] # "int" \/ ~FitsI32(call.key[2])) )
       => (fatal = "none" /\ result \in TypedFailures /\ elements = call.pre)
    /\ (call.op = "add" /\ call.key[1] # "list")
       => (fatal = "none" /\ result \in TypedFailures /\ elements = call.pre)

-----------------------------------------------------------------------------
(* Slice deletion with a step beyond the native width.                     *)

\* the magnitude of the step does not fit an i32
StepBeyondNative(step) ==
    IF is_positive(step) THEN ~FitsI32(step) ELSE ~FitsI32(Negated(step))

\* C20: a slice deletion that resolved a non-empty range and whose step has
\* a magnitude beyond the native width deletes exactly one element, the first
\* of the resolved range when the step is positive and the last of it when
\* the step is negative, and keeps every other element in order.
C20_HugeStepDeletesOne ==
    ( /\ AfterDelSlice
      /\ ~is_zero(call.step)
      /\ StepBeyondNative(call.step)
      /\ result # "Overflow"
      /\ LET r == RefRange(call.start, call.stop, call.step, Len(call.pre))
         IN  r[1] < r[2] )
    => LET r == RefRange(call.start, call.stop, call.step, Len(call.pre))
       IN  /\ result = "Ok"
           /\ Len(elements) = Len(call.pre) - 1
           /\ elements = Without(call.pre,
                                 {IF is_positive(call.step) THEN r[1] ELSE r[2] - 1})

C20_Witness ==
    /\ AfterDelSlice
    /\ call.pre = <<0, 1, 2, 3>>
    /\ call.step = Over(1) /\ call.start = Big(1) /\ call.stop = Big(3)
    /\ elements = <<0, 2, 3>>

-----------------------------------------------------------------------------
(* Operations on a list and itself: the property.                          *)

WithSelf == call.op # "none" /\ call.op # "remove" /\ call.key = SelfOperand

\* C21: a call during which no user code touches the list never ends in the
\* AliasingViolation, also when its operand is the list itself: iadd of the
\* list with itself succeeds and doubles the contents, add and the
\* comparisons of the list with itself succeed and leave it alone, and remove
\* holds no shared borrow when it takes the exclusive one for the deletion.
C21_NoAliasingWithoutCallbacks ==
    /\ fatal # "AliasingViolation"
    /\ (WithSelf /\ call.op = "iadd") =>
           (result = "Ok" /\ elements = call.pre \o call.pre)
    /\ (WithSelf /\ call.op # "iadd") =>
           (result = "Ok" /\ elements = call.pre)
    /\ (call.op = "remove" /\ result # "none") =>
           (readers = 0 /\ result \in {"Ok", "NotFound", "CallbackFailure"})

-----------------------------------------------------------------------------
(* The cursor and the operations that shrink the sequence.                 *)

\* C22: whatever pop, remove, clear and the deletions by index and by slice
\* did to the sequence between the next() calls, a next() never reads outside
\* the storage: it aborts nothing, and it either yields an element read at an
\* index below the length the sequence has at that moment, an element the
\* sequence holds then, or signals the end and yields nothing.
C22_NextStaysInsideStorage ==
    /\ call.op \in {"next"} \cup {a.op : a \in CursorOperations} => fatal = "none"
    /\ AfterNext =>
           \/ /\ result = "Ok"
              /\ call.position \in 0..(Len(call.pre) - 1)
              /\ \E k \in 1..Len(elements) : returned = <<elements[k]>>
           \/ /\ result = "StopIteration"
              /\ returned = <<>>
              /\ call.position >= Len(call.pre)

C22_Witness ==
    /\ AfterNext
    /\ call.position = 2
    /\ Len(call.pre) = 1
    /\ result = "StopIteration"
    /\ position = 2

====
